---- MODULE Spec2Model ----
(***************************************************************************)
(* The search page of hypercart-lab: the search dispatcher (performSearch *)
(* and performMainThreadSearch of SearchPage.tsx), the debounced input    *)
(* handler, the worker channel and the configuration flags.               *)
(*                                                                         *)
(* Strings are sequences of one-character strings, so that lower-casing,  *)
(* splitting and substring search are computed as the code computes them. *)
(***************************************************************************)
EXTENDS Integers, Sequences, FiniteSets, TLC

\* ------------------------------------------------------------------------
\* Bounds of the model
\* ------------------------------------------------------------------------
MaxQueryLen == 3
MaxCatalog == 51
MaxCalls == 2
MaxTime == 700
MaxFlagChanges == 1
MaxEvents == 2
MaxAdds == 3

\* ------------------------------------------------------------------------
\* Program constants
\* ------------------------------------------------------------------------
chunkSize == 50
ResultLimit == 20
DebounceDelay == 300

\* granularity of the clock
Tick == DebounceDelay \div 3

\* ------------------------------------------------------------------------
\* Strings
\* ------------------------------------------------------------------------
Space == " "
Tab == "\t"

Range(list) == { list[k] : k \in 1..Len(list) }

Min(x, y) == IF x < y THEN x ELSE y

\* String.prototype.toLowerCase, on the characters of the model
LowerOfChar(c) ==
    CASE c = "A" -> "a"
      [] c = "B" -> "b"
      [] OTHER -> c

\* variant: the case is left as it is
toLowerCase_identity(s) == s

toLowerCase(s) == [k \in 1..Len(s) |-> LowerOfChar(s[k])]

\* String.prototype.toUpperCase (used to vary the case of inputs)
UpperOfChar(c) ==
    CASE c = "a" -> "A"
      [] c = "b" -> "B"
      [] OTHER -> c

toUpperCase(s) == [k \in 1..Len(s) |-> UpperOfChar(s[k])]

\* String.prototype.includes: t occurs in s as a contiguous substring
includes(s, t) ==
    \E k \in 0..(Len(s) - Len(t)) : SubSeq(s, k + 1, k + Len(t)) = t

\* String.prototype.split(sep) for a one-character separator: the pieces
\* between the separators, empty pieces included
RECURSIVE SplitFrom(_, _, _)
SplitFrom(s, sep, cur) ==
    IF s = << >> THEN << cur >>
    ELSE IF Head(s) = sep THEN << cur >> \o SplitFrom(Tail(s), sep, << >>)
    ELSE SplitFrom(Tail(s), sep, Append(cur, Head(s)))

split(s, sep) == SplitFrom(s, sep, << >>)

\* Array.prototype.slice(from, to) with 0 <= from <= to
slice(arr, from, to) == SubSeq(arr, from + 1, Min(to, Len(arr)))

NonEmpty(term) == Len(term) > 0

\* line 95: searchQuery.toLowerCase().split(' ').filter(term => term.length > 0)
searchTermsOf(searchQuery) ==
    SelectSeq(split(toLowerCase(searchQuery), Space), NonEmpty)

\* variant: any one term is enough
matchesTerms_any(product, searchTerms) ==
    \E k \in 1..Len(searchTerms) :
        \/ includes(toLowerCase(product.name), searchTerms[k])
        \/ includes(toLowerCase(product.description), searchTerms[k])
        \/ includes(toLowerCase(product.category), searchTerms[k])

\* lines 162-166 and 177-181: every term occurs in the lower-cased name,
\* description or category
matchesTerms(product, searchTerms) ==
    \A k \in 1..Len(searchTerms) :
        \/ includes(toLowerCase(product.name), searchTerms[k])
        \/ includes(toLowerCase(product.description), searchTerms[k])
        \/ includes(toLowerCase(product.category), searchTerms[k])

\* variant: a chunk one product short, the last product of a chunk is skipped
chunkResultsOf_shortChunk(products, from, searchTerms) ==
    SelectSeq(slice(products, from, from + chunkSize - 1),
              LAMBDA product : matchesTerms(product, searchTerms))

\* variant: the matches of every chunk are cut to the result limit
chunkResultsOf_truncated(products, from, searchTerms) ==
    slice(SelectSeq(slice(products, from, from + chunkSize),
                    LAMBDA product : matchesTerms(product, searchTerms)),
          0, ResultLimit)

\* variant: a chunk one product too long, chunks overlap
chunkOf_overlapping(products, from) == slice(products, from, from + chunkSize + 1)

\* line 160: searchProducts.slice(i, i + chunkSize)
chunkOf(products, from) == slice(products, from, from + chunkSize)

\* the first and last product of a chunk and its length
chunkSpan(chunk) ==
    [first |-> chunk[1].id, last |-> chunk[Len(chunk)].id, size |-> Len(chunk)]

\* lines 160-167: the matches of one chunk, products[from+1 .. from+chunkSize]
chunkResultsOf(products, from, searchTerms) ==
    SelectSeq(chunkOf(products, from),
              LAMBDA product : matchesTerms(product, searchTerms))

\* lines 176-182: the synchronous full scan
syncFilter(products, searchTerms) ==
    SelectSeq(products, LAMBDA product : matchesTerms(product, searchTerms))

\* worker.js performSearch: the terms are not filtered for emptiness, the
\* matches are returned in catalog order, not truncated
workerSearch(searchQuery, products) ==
    LET terms == split(toLowerCase(searchQuery), Space)
    IN  SelectSeq(products, LAMBDA product : matchesTerms(product, terms))

\* the ids of a list of products
idsOf(products) == [k \in 1..Len(products) |-> products[k].id]

\* ------------------------------------------------------------------------
\* Catalogs and queries
\* ------------------------------------------------------------------------
\* product texts: the letter a occurs only in the name (KN), only in the
\* description (KD), only in the category (KC), or nowhere (KX)
KN == [name |-> << "A" >>, description |-> << "b" >>, category |-> << "b" >>]
KD == [name |-> << "b" >>, description |-> << "a", "B" >>, category |-> << "b" >>]
KC == [name |-> << "B" >>, description |-> << "b" >>, category |-> << "a" >>]
KX == [name |-> << "b" >>, description |-> << "b" >>, category |-> << "B" >>]

\* getAllProducts(): n products with ids 1..n, their texts repeating pattern
CatalogOf(pattern, n) ==
    [k \in 1..n |->
        LET kind == pattern[((k - 1) % Len(pattern)) + 1]
        IN  [id |-> k, name |-> kind.name, description |-> kind.description,
             category |-> kind.category]]

Patterns == { << KN >>, << KN, KX >>, << KX, KC, KD >> }

CatalogSizes == (0..2) \cup (chunkSize..MaxCatalog)

Catalogs == { CatalogOf(pattern, n) : pattern \in Patterns, n \in CatalogSizes }

QueryChars == { "a", "B", Space }

StringsUpTo(chars, n) == UNION { [1..m -> chars] : m \in 0..n }

\* pasted text can hold a tab
TabQueries == { << Tab >>, << "a", Tab >>, << "a", Tab, "B" >> }

Queries == StringsUpTo(QueryChars, MaxQueryLen) \cup TabQueries

\* the catalogs and input values of the page specification
PageCatalogs == { CatalogOf(<< KN, KX, KD >>, 3) }

PageQueries == { << >>, << "a" >> }

AllFlags == [useWorker : BOOLEAN, microYield : BOOLEAN, debounce : BOOLEAN]

\* ------------------------------------------------------------------------
\* State
\* ------------------------------------------------------------------------
VARIABLES
    searchProducts,  \* the catalog (React state, loaded once)
    config,          \* the flags as stored in the configuration
    flagChanges,     \* number of configuration changes so far
    flags,           \* the flags memoised by the component (useMemo)
    workerRef,       \* workerRef.current: 0 (null) or the id of the live worker
    workerSeq,       \* number of workers created so far
    liveWorkers,     \* the workers created and not terminated
    mounted,         \* the page component is mounted
    query,           \* the text of the input field
    results,         \* the displayed result list (product ids)
    isSearching,     \* the searching indicator
    debounceTimer,   \* the timer handle kept in React state: 0 (null) or an id
    timers,          \* the pending timers of the browser
    now,             \* the clock, in ms
    inputs,          \* the input changes so far: time, value, debounce flag
    calls,           \* the dispatcher calls so far, finished ones included
    currentBudgetLevel, \* the module variable of the budget library
    localStorage,    \* the item 'performance-budget-level': << >> or << value >>
    storageMode,     \* "ok", "readonly" (setItem throws), "blocked" (both throw)
    metrics,         \* the metrics of the collector, Undefined when not measured
    events,          \* number of entries and interactions recorded so far
    lastSet,         \* the level of the latest setBudgetLevel, "none" before
    returned,        \* the value returned by the latest operation, if any
    globalCart,      \* the module variable of use-cart.ts
    listeners,       \* the consumers whose listener is registered
    cartStorage,     \* the item 'hypercart-cart': a text, << >> when absent
    cartStorageMode, \* "ok", "readonly" (setItem throws), "blocked"
    consumers,       \* per component: phase, cart state, cart last rendered
    loadedCart,      \* the cart of the module initialisation
    addLog           \* the add-to-cart operations so far

searchVars == << searchProducts, config, flagChanges, flags, workerRef,
                 workerSeq, liveWorkers, mounted, query, results, isSearching,
                 debounceTimer, timers, now, inputs, calls >>

budgetVars == << currentBudgetLevel, localStorage, storageMode, metrics,
                 events, lastSet, returned >>

cartVars == << globalCart, listeners, cartStorage, cartStorageMode,
              consumers, loadedCart, addLog >>

vars == << searchVars, budgetVars, cartVars >>

NoWorker == 0
NoTimer == 0

\* ------------------------------------------------------------------------
\* The dispatcher
\* ------------------------------------------------------------------------
\* variant: no truncation
firstTwenty_untruncated(list) == list

\* lines 121 and 186: slice(0, 20)
firstTwenty(list) == slice(list, 0, ResultLimit)

\* performMainThreadSearch, up to its first suspension.  With microYield the
\* first chunk is filtered and the call suspends at the yield after it;
\* otherwise the whole catalog is filtered and the results are set.
mainThreadSearchWith(call, chunked) ==
    IF chunked
    THEN IF 0 < Len(searchProducts)
         THEN [call EXCEPT !.pc = "yield",
                           !.i = 0,
                           !.filteredResults =
                               idsOf(chunkResultsOf(searchProducts, 0, call.terms)),
                           !.chunks = << chunkSpan(chunkOf(searchProducts, 0)) >>,
                           !.ran = Append(@, "chunked"),
                           !.yields = 0]
         ELSE [call EXCEPT !.pc = "done",
                           !.ran = Append(@, "chunked"),
                           !.output = firstTwenty(<< >>)]
    ELSE LET filteredResults == idsOf(syncFilter(searchProducts, call.terms))
         IN  [call EXCEPT !.pc = "done",
                          !.filteredResults = filteredResults,
                          !.ran = Append(@, "sync"),
                          !.output = firstTwenty(filteredResults)]

\* variant: the chunking flag is read again from the page when the scan starts
performMainThreadSearch_liveFlags(call) ==
    mainThreadSearchWith(call, flags.microYield)

\* variant: the fallback always scans in chunks
performMainThreadSearch_alwaysChunked(call) == mainThreadSearchWith(call, TRUE)

\* lines 142-187, the branch taken on flags.microYield (line 155)
performMainThreadSearch(call) == mainThreadSearchWith(call, call.flags.microYield)

\* performSearch, up to its first suspension: the call it creates, where
\* toWorker is the condition of line 104.  staleFlags records that the call
\* runs with other flags than the stored ones although the page has read
\* the stored ones (flags = config) when the call starts.
startedCallWith(searchQuery, fl, via, input, toWorker) ==
    LET searchTerms == searchTermsOf(searchQuery)
        call == [query |-> searchQuery, terms |-> searchTerms, flags |-> fl,
                 via |-> via, input |-> input, at |-> now,
                 pc |-> "done", i |-> 0, yields |-> 0, chunks |-> << >>,
                 filteredResults |-> << >>, output |-> << >>,
                 ran |-> << >>, requests |-> 0, worker |-> NoWorker,
                 channel |-> workerRef, rejected |-> FALSE,
                 staleFlags |-> (flags = config /\ fl # config)]
    IN  IF Len(searchTerms) = 0
        THEN call
        ELSE IF toWorker
        THEN [call EXCEPT !.pc = "awaitWorker",
                          !.ran = << "worker" >>,
                          !.requests = 1,
                          !.worker = workerRef]
        ELSE performMainThreadSearch(call)

\* variant: the worker is used whenever its flag is set
startedCall_ignoringChannel(searchQuery, fl, via, input) ==
    startedCallWith(searchQuery, fl, via, input, fl.useWorker)

\* lines 82-132: flags.useWorker && workerRef.current selects the worker
startedCall(searchQuery, fl, via, input) ==
    startedCallWith(searchQuery, fl, via, input,
                    fl.useWorker /\ workerRef # NoWorker)

\* variant: the scan removes what it has read from the catalog (splice)
catalogAfterSearch_spliced(products) ==
    IF products = << >> THEN products ELSE Tail(products)

\* lines 110, 160-167, 176-182: the catalog after a step of a call; slice,
\* filter and concat return new arrays and the worker receives a copy
catalogAfterSearch(products) == products

\* variant: only the latest call sets the results
settle_latestOnly(c, call) ==
    /\ calls' = [calls EXCEPT ![c] = call]
    /\ results' = IF call.pc = "done" /\ mounted /\ c = Len(calls)
                  THEN call.output ELSE results
    /\ isSearching' = IF call.pc = "done" /\ mounted THEN FALSE ELSE isSearching
    /\ searchProducts' = catalogAfterSearch(searchProducts)

\* the state changes of a step of call c that leaves it as record call:
\* setResults when the call has reached its end, and the finally block
settle(c, call) ==
    /\ calls' = [calls EXCEPT ![c] = call]
    /\ results' = IF call.pc = "done" /\ mounted THEN call.output ELSE results
    /\ isSearching' = IF call.pc = "done" /\ mounted THEN FALSE ELSE isSearching
    /\ searchProducts' = catalogAfterSearch(searchProducts)

\* performSearch(searchQuery) invoked with the closure flags fl
performSearch(searchQuery, fl, via, input) ==
    LET call == startedCall(searchQuery, fl, via, input)
    IN  /\ calls' = Append(calls, call)
        /\ results' = IF call.pc = "done" THEN call.output ELSE results
        /\ isSearching' = (call.pc # "done")
        /\ searchProducts' = catalogAfterSearch(searchProducts)

\* variant: a scan is abandoned when a newer call has started
ChunkResume_cancelledByNewer(c) ==
    /\ c = Len(calls)
    /\ calls[c].pc = "yield"
    /\ LET call == calls[c]
           i == call.i + chunkSize
       IN  IF i < Len(searchProducts)
           THEN settle(c, [call EXCEPT
                    !.i = i,
                    !.yields = @ + 1,
                    !.chunks = Append(@, chunkSpan(chunkOf(searchProducts, i))),
                    !.filteredResults =
                        @ \o idsOf(chunkResultsOf(searchProducts, i, call.terms))])
           ELSE settle(c, [call EXCEPT
                    !.pc = "done",
                    !.yields = @ + 1,
                    !.output = firstTwenty(call.filteredResults)])
    /\ UNCHANGED << config, flagChanges, flags, workerRef,
                    workerSeq, liveWorkers, mounted, query, debounceTimer,
                    timers, now, inputs >>
    /\ UNCHANGED << budgetVars, cartVars >>

\* the continuation after await microYield(): the next chunk, or the end
ChunkResume(c) ==
    /\ calls[c].pc = "yield"
    /\ LET call == calls[c]
           i == call.i + chunkSize
       IN  IF i < Len(searchProducts)
           THEN settle(c, [call EXCEPT
                    !.i = i,
                    !.yields = @ + 1,
                    !.chunks = Append(@, chunkSpan(chunkOf(searchProducts, i))),
                    !.filteredResults =
                        @ \o idsOf(chunkResultsOf(searchProducts, i, call.terms))])
           ELSE settle(c, [call EXCEPT
                    !.pc = "done",
                    !.yields = @ + 1,
                    !.output = firstTwenty(call.filteredResults)])
    /\ UNCHANGED << config, flagChanges, flags, workerRef,
                    workerSeq, liveWorkers, mounted, query, debounceTimer,
                    timers, now, inputs >>
    /\ UNCHANGED << budgetVars, cartVars >>

\* the worker answers the request of call c
WorkerResolve(c) ==
    /\ calls[c].pc = "awaitWorker"
    /\ calls[c].worker \in liveWorkers
    /\ LET workerResults == idsOf(workerSearch(calls[c].query, searchProducts))
       IN  settle(c, [calls[c] EXCEPT !.pc = "done",
                                      !.output = firstTwenty(workerResults)])
    /\ UNCHANGED << config, flagChanges, flags, workerRef,
                    workerSeq, liveWorkers, mounted, query, debounceTimer,
                    timers, now, inputs >>
    /\ UNCHANGED << budgetVars, cartVars >>

\* variant: the failure ends the call with no results
WorkerReject_noFallback(c) ==
    /\ calls[c].pc = "awaitWorker"
    /\ calls[c].worker \in liveWorkers
    /\ settle(c, [calls[c] EXCEPT !.rejected = TRUE, !.pc = "done"])
    /\ UNCHANGED << config, flagChanges, flags, workerRef,
                    workerSeq, liveWorkers, mounted, query, debounceTimer,
                    timers, now, inputs >>
    /\ UNCHANGED << budgetVars, cartVars >>

\* the request of call c fails: the catch block runs the main-thread search
WorkerReject(c) ==
    /\ calls[c].pc = "awaitWorker"
    /\ calls[c].worker \in liveWorkers
    /\ settle(c, performMainThreadSearch([calls[c] EXCEPT !.rejected = TRUE]))
    /\ UNCHANGED << config, flagChanges, flags, workerRef,
                    workerSeq, liveWorkers, mounted, query, debounceTimer,
                    timers, now, inputs >>
    /\ UNCHANGED << budgetVars, cartVars >>

\* the worker of call c was terminated with the request outstanding: the
\* channel rejects the request, and the catch block runs the main-thread
\* search
WorkerTerminated(c) ==
    /\ calls[c].pc = "awaitWorker"
    /\ calls[c].worker \notin liveWorkers
    /\ settle(c, performMainThreadSearch([calls[c] EXCEPT !.rejected = TRUE]))
    /\ UNCHANGED << config, flagChanges, flags, workerRef,
                    workerSeq, liveWorkers, mounted, query, debounceTimer,
                    timers, now, inputs >>
    /\ UNCHANGED << budgetVars, cartVars >>

\* ------------------------------------------------------------------------
\* The input handler and the debounce timer
\* ------------------------------------------------------------------------
\* variant: the pending timer is left running
clearTimeout_noop(pending, id) == pending

\* lines 195-197: clearTimeout(debounceTimer); a null or stale handle
\* matches no pending timer
clearTimeout(pending, id) == { t \in pending : t.id # id }

handleInputChange(value) ==
    /\ mounted
    /\ Len(inputs) < MaxCalls
    /\ query' = value
    /\ inputs' = Append(inputs, [at |-> now, value |-> value,
                                 debounce |-> flags.debounce])
    /\ LET input == Len(inputs) + 1
           cleared == clearTimeout(timers, debounceTimer)
       IN  IF flags.debounce
           THEN /\ timers' = cleared \cup
                       { [id |-> input, deadline |-> now + DebounceDelay,
                          value |-> value, flags |-> flags] }
                /\ debounceTimer' = input
                /\ UNCHANGED << calls, results, isSearching, searchProducts >>
           ELSE /\ timers' = cleared
                /\ UNCHANGED debounceTimer
                /\ performSearch(value, flags, "input", input)
    /\ UNCHANGED << config, flagChanges, flags, workerRef,
                    workerSeq, liveWorkers, mounted, now >>
    /\ UNCHANGED << budgetVars, cartVars >>

\* the setTimeout callback of line 202 runs when its delay has elapsed
TimerFire(t) ==
    /\ t \in timers
    /\ now = t.deadline
    /\ timers' = timers \ { t }
    /\ performSearch(t.value, t.flags, "timer", t.id)
    /\ UNCHANGED << config, flagChanges, flags, workerRef,
                    workerSeq, liveWorkers, mounted, query, debounceTimer,
                    now, inputs >>
    /\ UNCHANGED << budgetVars, cartVars >>

\* time passes, never beyond the deadline of a pending timer.  The clock is
\* only read through timers: while none is pending the passing of time
\* changes nothing the page can observe, and the clock stands still.
Advance ==
    /\ now + Tick <= MaxTime
    /\ timers # { }
    /\ \A t \in timers : now + Tick <= t.deadline
    /\ now' = now + Tick
    /\ UNCHANGED << searchProducts, config, flagChanges, flags, workerRef,
                    workerSeq, liveWorkers, mounted, query, results,
                    isSearching, debounceTimer, timers, inputs, calls >>
    /\ UNCHANGED << budgetVars, cartVars >>

\* ------------------------------------------------------------------------
\* The configuration flags and the worker effect
\* ------------------------------------------------------------------------
\* variant: the worker is left running
terminate_noop(live, worker) == live

\* lines 57-58: workerRef.current.terminate()
terminate(live, worker) == live \ { worker }

\* a flag is toggled in the stored configuration
SetFlag(f) ==
    /\ flagChanges < MaxFlagChanges
    /\ config' = [config EXCEPT ![f] = ~ @]
    /\ flagChanges' = flagChanges + 1
    /\ UNCHANGED << searchProducts, flags, workerRef, workerSeq,
                    liveWorkers, mounted, query, results, isSearching, debounceTimer, timers, now, inputs,
                    calls >>
    /\ UNCHANGED << budgetVars, cartVars >>

\* the storage event: flagsVersion changes, getFlags() is read again, and
\* the worker effect is re-run when flags.useWorker has changed (its cleanup
\* terminates the worker, its body creates one when the flag is on)
StorageEvent ==
    /\ mounted
    /\ flags # config
    /\ flags' = config
    /\ IF flags.useWorker = config.useWorker
       THEN UNCHANGED << workerRef, workerSeq, liveWorkers >>
       ELSE IF config.useWorker
       THEN /\ workerSeq' = workerSeq + 1
            /\ workerRef' = workerSeq + 1
            /\ liveWorkers' =
                   terminate(liveWorkers, workerRef) \cup { workerSeq + 1 }
       ELSE /\ workerRef' = NoWorker
            /\ liveWorkers' = terminate(liveWorkers, workerRef)
            /\ UNCHANGED workerSeq
    /\ UNCHANGED << searchProducts, config, flagChanges, mounted, query, results,
                    isSearching, debounceTimer, timers, now, inputs, calls >>
    /\ UNCHANGED << budgetVars, cartVars >>

\* variant: the pending timer survives the page
Unmount_keepsTimer ==
    /\ mounted
    /\ mounted' = FALSE
    /\ liveWorkers' = terminate(liveWorkers, workerRef)
    /\ workerRef' = NoWorker
    /\ UNCHANGED << searchProducts, config, flagChanges, flags, workerSeq,
                    query, results, isSearching, debounceTimer, timers, now,
                    inputs, calls >>
    /\ UNCHANGED << budgetVars, cartVars >>

\* the page is left: the cleanup of the worker effect terminates the worker
\* and clears the reference (lines 56-61), the cleanup of line 218 clears
\* the pending debounce timer, the storage listener is removed (line 47)
Unmount ==
    /\ mounted
    /\ mounted' = FALSE
    /\ liveWorkers' = terminate(liveWorkers, workerRef)
    /\ workerRef' = NoWorker
    /\ timers' = clearTimeout(timers, debounceTimer)
    /\ UNCHANGED << searchProducts, config, flagChanges, flags, workerSeq,
                    query, results, isSearching, debounceTimer, now, inputs,
                    calls >>
    /\ UNCHANGED << budgetVars, cartVars >>

\* ------------------------------------------------------------------------
\* The performance budgets (src/lib/product-images.ts)
\* ------------------------------------------------------------------------
\* the three budget tables; cls is counted in hundredths (0.1 is 10)
PERFORMANCE_BUDGETS ==
    [conservative |->
        [lcp |-> 2500, inp |-> 200, cls |-> 10, fcp |-> 1800, ttfb |-> 800,
         totalSize |-> 500, jsSize |-> 300, cssSize |-> 100,
         imageSize |-> 1000, requests |-> 20, thirdPartyRequests |-> 5,
         longTasks |-> 0, mainThreadTime |-> 100, layoutShifts |-> 1],
     moderate |->
        [lcp |-> 4000, inp |-> 500, cls |-> 25, fcp |-> 3000, ttfb |-> 1800,
         totalSize |-> 1000, jsSize |-> 600, cssSize |-> 200,
         imageSize |-> 2000, requests |-> 50, thirdPartyRequests |-> 10,
         longTasks |-> 3, mainThreadTime |-> 300, layoutShifts |-> 3],
     relaxed |->
        [lcp |-> 6000, inp |-> 1000, cls |-> 50, fcp |-> 4500, ttfb |-> 3000,
         totalSize |-> 2000, jsSize |-> 1200, cssSize |-> 400,
         imageSize |-> 4000, requests |-> 100, thirdPartyRequests |-> 20,
         longTasks |-> 10, mainThreadTime |-> 1000, layoutShifts |-> 5]]

BudgetLevel == DOMAIN PERFORMANCE_BUDGETS

\* the entries of getBudgetStatus, in their order
budgetEntries ==
    << "lcp", "inp", "cls", "fcp", "ttfb", "totalSize", "jsSize", "cssSize",
       "imageSize", "requests", "thirdPartyRequests", "longTasks",
       "mainThreadTime", "layoutShifts" >>

\* the value of a metric that has not been measured, of a property an
\* object does not have
Undefined == 0 - 1

NoMetrics == [key \in Range(budgetEntries) |-> Undefined]

NoReturn == [op |-> "none", value |-> << >>]

\* names every object inherits from Object.prototype
ObjectPrototype == { "toString", "constructor" }

\* line 148: stored in PERFORMANCE_BUDGETS, true for inherited names too
inBudgets(stored) == stored \in BudgetLevel \cup ObjectPrototype

\* lines 146-153: the level after the body of getBudgetLevel; a read that
\* throws, a missing item, an empty string and an unknown name leave it
levelRead ==
    IF /\ storageMode # "blocked"
       /\ localStorage # << >>
       /\ localStorage[1] # ""
       /\ inBudgets(localStorage[1])
    THEN localStorage[1]
    ELSE currentBudgetLevel

\* PERFORMANCE_BUDGETS[level]: a table, or an inherited property, which has
\* none of the thresholds
budgetOf(level) ==
    IF level \in BudgetLevel THEN PERFORMANCE_BUDGETS[level] ELSE NoMetrics

getBudgetLevel ==
    /\ currentBudgetLevel' = levelRead
    /\ returned' = [op |-> "getBudgetLevel", value |-> levelRead]
    /\ UNCHANGED << localStorage, storageMode, metrics, events, lastSet >>
    /\ UNCHANGED << searchVars, cartVars >>

setBudgetLevel(level) ==
    /\ currentBudgetLevel' = level
    /\ localStorage' = IF storageMode = "ok" THEN << level >> ELSE localStorage
    /\ lastSet' = level
    /\ returned' = NoReturn
    /\ UNCHANGED << storageMode, metrics, events >>
    /\ UNCHANGED << searchVars, cartVars >>

getCurrentBudget ==
    /\ currentBudgetLevel' = levelRead
    /\ returned' = [op |-> "getCurrentBudget", value |-> budgetOf(levelRead)]
    /\ UNCHANGED << localStorage, storageMode, metrics, events, lastSet >>
    /\ UNCHANGED << searchVars, cartVars >>

\* variant: rounding down
MathRound_floor(num, den) == num \div den

\* Math.round of the quotient num / den of two naturals: the nearest
\* integer, halves rounded up
MathRound(num, den) == (2 * num + den) \div (2 * den)

\* a performance entry as the observer delivers it
entryOf(entryType, name, amount, hadRecentInput) ==
    [entryType |-> entryType, name |-> name, startTime |-> amount,
     duration |-> amount, value |-> amount, requestStart |-> 5,
     responseStart |-> amount + 5, hadRecentInput |-> hadRecentInput]

\* lines 179-181: the counters of the collector, which the metrics repeat
longTaskCount == IF metrics.longTasks = Undefined THEN 0 ELSE metrics.longTasks

mainThreadBlockingTime ==
    IF metrics.mainThreadTime = Undefined THEN 0 ELSE metrics.mainThreadTime

layoutShiftCount ==
    IF metrics.layoutShifts = Undefined THEN 0 ELSE metrics.layoutShifts

\* lines 216-251
processEntry(entry) ==
    /\ events < MaxEvents
    /\ events' = events + 1
    /\ metrics' =
          CASE entry.entryType = "navigation" ->
                  [metrics EXCEPT !.ttfb = entry.responseStart - entry.requestStart]
            [] entry.entryType = "paint" ->
                  IF entry.name = "first-contentful-paint"
                  THEN [metrics EXCEPT !.fcp = entry.startTime]
                  ELSE metrics
            [] entry.entryType = "largest-contentful-paint" ->
                  [metrics EXCEPT !.lcp = entry.startTime]
            [] entry.entryType = "layout-shift" ->
                  IF ~ entry.hadRecentInput
                  THEN [metrics EXCEPT
                           !.layoutShifts = layoutShiftCount + 1,
                           !.cls = (IF @ = Undefined THEN 0 ELSE @) + entry.value]
                  ELSE metrics
            [] entry.entryType = "longtask" ->
                  [metrics EXCEPT
                      !.longTasks = longTaskCount + 1,
                      !.mainThreadTime = mainThreadBlockingTime + entry.duration]
            [] OTHER -> metrics
    /\ returned' = NoReturn
    /\ UNCHANGED << currentBudgetLevel, localStorage, storageMode, lastSet >>
    /\ UNCHANGED << searchVars, cartVars >>

ResourceTypes == { "js", "css", "image", "other" }

\* the sum of the sizes of the resources of some types
RECURSIVE sizeOf(_, _)
sizeOf(resources, types) ==
    IF resources = << >> THEN 0
    ELSE (IF Head(resources).type \in types
          THEN Head(resources).transferSize ELSE 0)
         + sizeOf(Tail(resources), types)

\* lines 253-303, run once by the constructor of the collector
collectResourceMetrics(resources) ==
    /\ metrics.requests = Undefined
    /\ metrics' = [metrics EXCEPT
          !.totalSize = MathRound(sizeOf(resources, ResourceTypes), 1024),
          !.jsSize = MathRound(sizeOf(resources, { "js" }), 1024),
          !.cssSize = MathRound(sizeOf(resources, { "css" }), 1024),
          !.imageSize = MathRound(sizeOf(resources, { "image" }), 1024),
          !.requests = Len(resources),
          !.thirdPartyRequests =
              Len(SelectSeq(resources, LAMBDA r : r.thirdParty))]
    /\ returned' = NoReturn
    /\ UNCHANGED << currentBudgetLevel, localStorage, storageMode, events,
                    lastSet >>
    /\ UNCHANGED << searchVars, cartVars >>

\* lines 306-310: the longest interaction; a recorded 0 counts as none
recordInteraction(duration) ==
    /\ events < MaxEvents
    /\ events' = events + 1
    /\ metrics' = IF metrics.inp = Undefined \/ metrics.inp = 0
                     \/ duration > metrics.inp
                  THEN [metrics EXCEPT !.inp = duration]
                  ELSE metrics
    /\ returned' = NoReturn
    /\ UNCHANGED << currentBudgetLevel, localStorage, storageMode, lastSet >>
    /\ UNCHANGED << searchVars, cartVars >>

\* variant: exactly 80% of the budget is a warning already
getStatus_strict(actual, budget) ==
    IF budget = 0 THEN "fail"
    ELSE IF 10 * actual < 8 * budget THEN "pass"
    ELSE IF actual <= budget THEN "warning"
    ELSE "fail"

\* lines 323-328: ratio = actual / budget compared with 0.8 and 1.0; with a
\* budget of 0 the ratio is Infinity or NaN and no comparison holds
getStatus(actual, budget) ==
    IF budget = 0 THEN "fail"
    ELSE IF 10 * actual <= 8 * budget THEN "pass"
    ELSE IF actual <= budget THEN "warning"
    ELSE "fail"

\* lines 353-372: one status for every entry with a measured value and a
\* threshold
statusesOf(budget) ==
    LET measured == SelectSeq(budgetEntries,
                        LAMBDA key : /\ metrics[key] # Undefined
                                     /\ budget[key] # Undefined)
    IN  [k \in 1..Len(measured) |->
            [metric |-> measured[k],
             budget |-> budget[measured[k]],
             actual |-> metrics[measured[k]],
             status |-> getStatus(metrics[measured[k]], budget[measured[k]])]]

\* lines 316-375
getBudgetStatus ==
    /\ currentBudgetLevel' = levelRead
    /\ returned' = [op |-> "getBudgetStatus",
                    value |-> statusesOf(budgetOf(levelRead))]
    /\ UNCHANGED << localStorage, storageMode, metrics, events, lastSet >>
    /\ UNCHANGED << searchVars, cartVars >>

\* lines 409-428
getBudgetSummary ==
    /\ currentBudgetLevel' = levelRead
    /\ LET statuses == statusesOf(budgetOf(levelRead))
           count(status) ==
               Len(SelectSeq(statuses, LAMBDA s : s.status = status))
           total == Len(statuses)
           passed == count("pass")
           warnings == count("warning")
           failed == count("fail")
           score == IF total > 0
                    THEN MathRound((2 * passed + warnings) * 100, 2 * total)
                    ELSE 100
       IN  returned' = [op |-> "getBudgetSummary",
                        value |-> [total |-> total, passed |-> passed,
                                   warnings |-> warnings, failed |-> failed,
                                   score |-> score,
                                   statuses |-> statuses]]
    /\ UNCHANGED << localStorage, storageMode, metrics, events, lastSet >>
    /\ UNCHANGED << searchVars, cartVars >>

\* the entries the observer delivers and the interactions recorded
ObservedEntries ==
    { entryOf("navigation", "", ttfb, FALSE) : ttfb \in { 640, 1801 } }
    \cup { entryOf("paint", name, 1440, FALSE) :
             name \in { "first-paint", "first-contentful-paint" } }
    \cup { entryOf("largest-contentful-paint", "", lcp, FALSE) :
             lcp \in { 2000, 2001, 4000, 4001 } }
    \cup { entryOf("layout-shift", "", 8, recent) : recent \in BOOLEAN }
    \cup { entryOf("longtask", "", duration, FALSE) : duration \in { 80, 120 } }

Interactions == { 0, 160, 501 }

resourceOf(type, transferSize, thirdParty) ==
    [type |-> type, transferSize |-> transferSize, thirdParty |-> thirdParty]

\* the resources of a page load: 240 KB of script, 80.5 KB of style and
\* 1000 KB of images from another origin; or one document of 400 KB
ResourceLists ==
    { << resourceOf("js", 245760, FALSE), resourceOf("css", 82432, FALSE),
         resourceOf("image", 1024000, TRUE) >>,
      << resourceOf("other", 409600, FALSE) >> }

\* the items the storage can hold under the key, and its modes
StoredItems ==
    { << >>, << "conservative" >>, << "moderate" >>, << "relaxed" >>,
      << "" >>, << "fast" >>, << "toString" >> }

StorageModes == { "ok", "readonly", "blocked" }

\* ------------------------------------------------------------------------
\* The cart (src/hooks/use-cart.ts) and add-to-cart
\* ------------------------------------------------------------------------
DigitChars == << "0", "1", "2", "3", "4", "5", "6", "7", "8", "9" >>

\* the decimal text of a number, as JSON.stringify writes it
RECURSIVE toDigits(_)
toDigits(n) ==
    IF n < 10 THEN << DigitChars[n + 1] >>
    ELSE toDigits(n \div 10) \o << DigitChars[(n % 10) + 1] >>

IsDigit(ch) == ch \in Range(DigitChars)

digitValue(ch) == CHOOSE d \in 0..9 : DigitChars[d + 1] = ch

\* a cart line of a product with the given id
lineOf(id, quantity) == [product |-> [id |-> id], quantity |-> quantity]

itemText(item) ==
    << "{" >> \o toDigits(item.product.id) \o << ":" >>
              \o toDigits(item.quantity) \o << "}" >>

RECURSIVE itemsText(_)
itemsText(cart) ==
    IF cart = << >> THEN << >>
    ELSE IF Len(cart) = 1 THEN itemText(cart[1])
    ELSE itemText(cart[1]) \o << "," >> \o itemsText(Tail(cart))

\* JSON.stringify of a cart: the text of an array of lines
JSONstringify(cart) == << "[" >> \o itemsText(cart) \o << "]" >>

ParseError == [ok |-> FALSE, value |-> << >>]

\* the digits from pos on: their value and the position after them
RECURSIVE readNumber(_, _, _)
readNumber(text, pos, acc) ==
    IF pos <= Len(text) /\ IsDigit(text[pos])
    THEN readNumber(text, pos + 1, acc * 10 + digitValue(text[pos]))
    ELSE [value |-> acc, next |-> pos]

\* the lines from pos on, up to the closing bracket at the end of the text
RECURSIVE parseItems(_, _, _)
parseItems(text, pos, acc) ==
    LET id == readNumber(text, pos + 1, 0)
        quantity == readNumber(text, id.next + 1, 0)
        items == Append(acc, lineOf(id.value, quantity.value))
        after == quantity.next + 1
    IN  IF /\ pos <= Len(text)
           /\ text[pos] = "{"
           /\ id.next > pos + 1
           /\ id.next <= Len(text)
           /\ text[id.next] = ":"
           /\ quantity.next > id.next + 1
           /\ quantity.next <= Len(text)
           /\ text[quantity.next] = "}"
        THEN IF after = Len(text) /\ text[after] = "]"
             THEN [ok |-> TRUE, value |-> items]
             ELSE IF after < Len(text) /\ text[after] = ","
             THEN parseItems(text, after + 1, items)
             ELSE ParseError
        ELSE ParseError

\* JSON.parse of a stored text: a cart, or a SyntaxError
JSONparse(text) ==
    IF text = << "[", "]" >> THEN [ok |-> TRUE, value |-> << >>]
    ELSE IF Len(text) >= 1 /\ text[1] = "[" THEN parseItems(text, 2, << >>)
    ELSE ParseError

\* the module initialisation: getItem, parse, and [] when either throws
initialCart(saved, mode) ==
    IF mode = "blocked" THEN << >>
    ELSE IF saved = << >> THEN << >>
    ELSE IF JSONparse(saved).ok THEN JSONparse(saved).value
    ELSE << >>

\* variant: a new line is appended even when the product has one
addToCart_alwaysAppends(cartArray, product) ==
    Append(cartArray, [product |-> product, quantity |-> 1])

\* the updater of handleAddToCart, on both pages
addToCart(cartArray, product) ==
    IF \E i \in 1..Len(cartArray) : cartArray[i].product.id = product.id
    THEN [i \in 1..Len(cartArray) |->
            IF cartArray[i].product.id = product.id
            THEN [cartArray[i] EXCEPT !.quantity = cartArray[i].quantity + 1]
            ELSE cartArray[i]]
    ELSE Append(cartArray, [product |-> product, quantity |-> 1])

\* variant: the updater gets the cart of the component's last render
currentCart_ownState(k) == consumers[k].view

\* the cart handed to an updater function by setCart
currentCart(k) == globalCart

\* notifyListeners: every registered listener sets its component's state
notifyListeners(cart) ==
    consumers' = [k \in DOMAIN consumers |->
                    IF k \in listeners
                    THEN [consumers[k] EXCEPT !.cart = cart]
                    ELSE consumers[k]]

\* variant: a failed write throws out of updateGlobalCart, before anything
updateGlobalCart_throwsOnFailedWrite(newCart) ==
    IF cartStorageMode = "ok"
    THEN /\ globalCart' = newCart
         /\ cartStorage' = JSONstringify(newCart)
         /\ notifyListeners(newCart)
    ELSE UNCHANGED << globalCart, cartStorage, consumers >>

\* updateGlobalCart: replace, try to save, notify
updateGlobalCart(newCart) ==
    /\ globalCart' = newCart
    /\ cartStorage' = IF cartStorageMode = "ok" THEN JSONstringify(newCart)
                      ELSE cartStorage
    /\ notifyListeners(newCart)

Mounted(k) == consumers[k].phase \in { "rendered", "listening" }

\* the first render of a component that calls useCart: useState(globalCart)
useCart(k) ==
    /\ consumers[k].phase = "none"
    /\ consumers' = [consumers EXCEPT ![k] =
                        [phase |-> "rendered", cart |-> globalCart,
                         view |-> globalCart]]
    /\ UNCHANGED << globalCart, listeners, cartStorage, cartStorageMode,
                    loadedCart, addLog >>
    /\ UNCHANGED << searchVars, budgetVars >>

\* the effect of useCart: listeners.add
addListener(k) ==
    /\ consumers[k].phase = "rendered"
    /\ listeners' = listeners \cup { k }
    /\ consumers' = [consumers EXCEPT ![k].phase = "listening"]
    /\ UNCHANGED << globalCart, cartStorage, cartStorageMode, loadedCart,
                    addLog >>
    /\ UNCHANGED << searchVars, budgetVars >>

\* a render after setCartState: the component sees its cart state
rerender(k) ==
    /\ Mounted(k)
    /\ consumers[k].view # consumers[k].cart
    /\ consumers' = [consumers EXCEPT ![k].view = consumers[k].cart]
    /\ UNCHANGED << globalCart, listeners, cartStorage, cartStorageMode,
                    loadedCart, addLog >>
    /\ UNCHANGED << searchVars, budgetVars >>

\* the unmount of a consumer: the cleanup of the effect, listeners.delete
removeListener(k) ==
    /\ Mounted(k)
    /\ listeners' = listeners \ { k }
    /\ consumers' = [consumers EXCEPT ![k].phase = "unmounted"]
    /\ UNCHANGED << globalCart, cartStorage, cartStorageMode, loadedCart,
                    addLog >>
    /\ UNCHANGED << searchVars, budgetVars >>

\* handleAddToCart of a page: setCart with the updater
handleAddToCart(k, product) ==
    /\ Mounted(k)
    /\ Len(addLog) < MaxAdds
    /\ updateGlobalCart(addToCart(currentCart(k), product))
    /\ addLog' = Append(addLog,
                        [by |-> k, product |-> product,
                         stale |-> consumers[k].view # globalCart])
    /\ UNCHANGED << listeners, cartStorageMode, loadedCart >>
    /\ UNCHANGED << searchVars, budgetVars >>

CartProducts == { [id |-> 1], [id |-> 2] }

Consumers == { "SearchPage", "ProductsPage" }

\* stored texts: none, a cart of one line, and a text JSON.parse rejects
StoredCarts ==
    { << >>, JSONstringify(<< lineOf(1, 2) >>), << "[", "{", "1", ":" >> }

\* ------------------------------------------------------------------------
\* Specifications
\* ------------------------------------------------------------------------
InitSearchPage(catalogs, flagSets) ==
    /\ searchProducts \in catalogs
    /\ config \in flagSets
    /\ flagChanges = 0
    /\ flags = config
    /\ workerRef = IF config.useWorker THEN 1 ELSE NoWorker
    /\ workerSeq = IF config.useWorker THEN 1 ELSE 0
    /\ liveWorkers = IF config.useWorker THEN { 1 } ELSE { }
    /\ mounted = TRUE
    /\ query = << >>
    /\ results = << >>
    /\ isSearching = FALSE
    /\ debounceTimer = NoTimer
    /\ timers = { }
    /\ now = 0
    /\ inputs = << >>
    /\ calls = << >>

\* the budget library when its module is loaded (line 141) and a collector
\* that has observed nothing yet (lines 176-180)
InitCollector(items, modes) ==
    /\ currentBudgetLevel = "moderate"
    /\ localStorage \in items
    /\ storageMode \in modes
    /\ metrics = NoMetrics
    /\ events = 0
    /\ lastSet = "none"
    /\ returned = NoReturn

\* the module initialisation of use-cart.ts, no component rendered yet
InitCart(items, modes) ==
    /\ cartStorage \in items
    /\ cartStorageMode \in modes
    /\ globalCart = initialCart(cartStorage, cartStorageMode)
    /\ loadedCart = globalCart
    /\ listeners = { }
    /\ consumers = [k \in Consumers |->
                      [phase |-> "none", cart |-> << >>, view |-> << >>]]
    /\ addLog = << >>

InitWith(catalogs, flagSets) ==
    /\ InitSearchPage(catalogs, flagSets)
    /\ InitCollector({ << >> }, { "ok" })
    /\ InitCart({ << >> }, { "ok" })

\* the search page: any flags, input changes over time, flag changes
Init == InitWith(PageCatalogs, AllFlags)

Next ==
    \/ \E value \in PageQueries : handleInputChange(value)
    \/ \E t \in timers : TimerFire(t)
    \/ Advance
    \/ \E c \in 1..Len(calls) : ChunkResume(c)
    \/ \E c \in 1..Len(calls) : WorkerResolve(c)
    \/ \E c \in 1..Len(calls) : WorkerReject(c)
    \/ \E c \in 1..Len(calls) : WorkerTerminated(c)
    \/ \E f \in { "useWorker", "microYield", "debounce" } : SetFlag(f)
    \/ StorageEvent
    \/ Unmount

Spec == Init /\ [][Next]_vars

\* the page with debounce off, where every suspended call is resumed: the
\* scheduler runs the continuation of a yield, the worker answers a request
\* and the channel rejects the requests of a terminated worker
InitLive == InitWith(PageCatalogs, { f \in AllFlags : ~ f.debounce })

NextLive ==
    \/ \E value \in PageQueries : handleInputChange(value)
    \/ \E c \in 1..Len(calls) : ChunkResume(c)
    \/ \E c \in 1..Len(calls) : WorkerResolve(c)
    \/ \E c \in 1..Len(calls) : WorkerReject(c)
    \/ \E c \in 1..Len(calls) : WorkerTerminated(c)
    \/ \E f \in { "useWorker", "microYield" } : SetFlag(f)
    \/ StorageEvent
    \/ Unmount

SpecLive ==
    /\ InitLive
    /\ [][NextLive]_vars
    /\ \A c \in 1..MaxCalls :
          WF_vars(c <= Len(calls) /\ (\/ ChunkResume(c)
                                      \/ WorkerResolve(c)
                                      \/ WorkerReject(c)
                                      \/ WorkerTerminated(c)))

\* one dispatcher call on any catalog and any query, debounce off
SearchInput(value) ==
    /\ calls = << >>
    /\ handleInputChange(value)

InitSearch == InitWith(Catalogs, { f \in AllFlags : ~ f.debounce })

NextSearch ==
    \/ \E value \in Queries : SearchInput(value)
    \/ \E c \in 1..Len(calls) : ChunkResume(c)
    \/ \E c \in 1..Len(calls) : WorkerResolve(c)
    \/ \E c \in 1..Len(calls) : WorkerReject(c)

SpecSearch == InitSearch /\ [][NextSearch]_vars

\* the budget monitor on a fresh profile: entries observed, interactions
\* recorded, the level chosen, status and summary asked for
InitBudget ==
    /\ InitSearchPage(PageCatalogs, { [useWorker |-> FALSE,
                                       microYield |-> FALSE,
                                       debounce |-> FALSE] })
    /\ InitCollector({ << >> }, { "ok" })
    /\ InitCart({ << >> }, { "ok" })

NextBudget ==
    \/ \E entry \in ObservedEntries : processEntry(entry)
    \/ \E resources \in ResourceLists : collectResourceMetrics(resources)
    \/ \E duration \in Interactions : recordInteraction(duration)
    \/ \E level \in BudgetLevel : setBudgetLevel(level)
    \/ getBudgetStatus
    \/ getBudgetSummary

SpecBudget == InitBudget /\ [][NextBudget]_vars

\* the budget level over any storage
InitLevel ==
    /\ InitSearchPage(PageCatalogs, { [useWorker |-> FALSE,
                                       microYield |-> FALSE,
                                       debounce |-> FALSE] })
    /\ InitCollector(StoredItems, StorageModes)
    /\ InitCart({ << >> }, { "ok" })

NextLevel ==
    \/ \E level \in BudgetLevel : setBudgetLevel(level)
    \/ getBudgetLevel
    \/ getCurrentBudget

SpecLevel == InitLevel /\ [][NextLevel]_vars

\* the cart: any stored text, two components, add-to-cart from both
InitCartPages ==
    /\ InitSearchPage(PageCatalogs, { [useWorker |-> FALSE,
                                       microYield |-> FALSE,
                                       debounce |-> FALSE] })
    /\ InitCollector({ << >> }, { "ok" })
    /\ InitCart(StoredCarts, StorageModes)

NextCart ==
    \/ \E k \in Consumers : useCart(k)
    \/ \E k \in Consumers : addListener(k)
    \/ \E k \in Consumers : rerender(k)
    \/ \E k \in Consumers : removeListener(k)
    \/ \E k \in Consumers : \E product \in CartProducts :
          handleAddToCart(k, product)

SpecCart == InitCartPages /\ [][NextCart]_vars

\* ------------------------------------------------------------------------
\* Properties
\* ------------------------------------------------------------------------
CallIds == 1..Len(calls)

Last(list) == list[Len(list)]

\* the call has run a local scan (directly or as fallback) to its end
LocalDone(call) ==
    /\ call.pc = "done"
    /\ call.ran # << >>
    /\ Last(call.ran) \in { "sync", "chunked" }

\* the terms of a query split on whitespace (space or tab), lower-cased,
\* empty terms dropped
RECURSIVE WordsFrom(_, _)
WordsFrom(s, cur) ==
    IF s = << >> THEN (IF cur = << >> THEN << >> ELSE << cur >>)
    ELSE IF Head(s) \in { Space, Tab }
    THEN (IF cur = << >> THEN << >> ELSE << cur >>) \o WordsFrom(Tail(s), << >>)
    ELSE WordsFrom(Tail(s), Append(cur, LowerOfChar(Head(s))))

whitespaceTermsOf(q) == WordsFrom(q, << >>)

OnlyWhitespace(q) == \A k \in 1..Len(q) : q[k] \in { Space, Tab }

\* every whitespace-separated term occurs in the lower-cased name,
\* description or category
MatchesEveryWord(product, q) ==
    \A term \in Range(whitespaceTermsOf(q)) :
        \/ includes([k \in 1..Len(product.name) |-> LowerOfChar(product.name[k])], term)
        \/ includes([k \in 1..Len(product.description) |->
                        LowerOfChar(product.description[k])], term)
        \/ includes([k \in 1..Len(product.category) |->
                        LowerOfChar(product.category[k])], term)

\* the matches of the terms in catalog order
matchIds(searchTerms) == idsOf(syncFilter(searchProducts, searchTerms))

\* C1 (as claimed): the match set of a finished local scan is exactly the
\* set of products in which every whitespace-separated, lower-cased term of
\* the query occurs in the name, the description or the category.
C1_LocalMatchSetIsWordMatch ==
    \A c \in CallIds :
        (LocalDone(calls[c]) /\ whitespaceTermsOf(calls[c].query) # << >>) =>
            Range(calls[c].filteredResults) =
                { searchProducts[k].id : k \in
                    { j \in 1..Len(searchProducts) :
                        MatchesEveryWord(searchProducts[j], calls[c].query) } }

\* the strategy line 104 and line 155 select for a call, from the flags the
\* call sees and the worker channel at its start
chosenStrategy(call) ==
    IF call.flags.useWorker /\ call.channel # NoWorker THEN "worker"
    ELSE IF call.flags.microYield THEN "chunked"
    ELSE "sync"

localStrategy(call) == IF call.flags.microYield THEN "chunked" ELSE "sync"

\* C2 (as claimed): every call whose query has a term runs exactly one
\* strategy, the one the precedence worker, chunked, synchronous selects.
C2_ExactlyOneStrategy ==
    \A c \in CallIds :
        calls[c].terms # << >> => calls[c].ran = << chosenStrategy(calls[c]) >>

\* C2 (amended): every call whose query has a term starts the strategy the
\* precedence selects, and runs no other strategy unless its worker request
\* failed, in which case it then runs the local scan its chunking flag selects.
C2_StrategyByPrecedence ==
    \A c \in CallIds :
        calls[c].terms # << >> =>
            IF calls[c].rejected
            THEN /\ chosenStrategy(calls[c]) = "worker"
                 /\ calls[c].ran = << "worker", localStrategy(calls[c]) >>
            ELSE calls[c].ran = << chosenStrategy(calls[c]) >>

\* a call whose flags ask for the worker while no worker exists ran the
\* local scan alone
C2_Witness ==
    \E c \in CallIds :
        /\ calls[c].flags.useWorker
        /\ calls[c].channel = NoWorker
        /\ calls[c].terms # << >>
        /\ calls[c].pc = "done"
        /\ Len(calls[c].ran) = 1

\* C3: a finished chunked scan has collected the same list as the
\* synchronous scan of the same catalog and terms, and has set the same
\* result list, in the same order.
C3_ChunkedEqualsSync ==
    \A c \in CallIds :
        (calls[c].pc = "done" /\ calls[c].ran # << >>
            /\ Last(calls[c].ran) = "chunked") =>
            /\ calls[c].filteredResults = matchIds(calls[c].terms)
            /\ calls[c].output = slice(matchIds(calls[c].terms), 0, ResultLimit)

\* a chunked scan of a catalog of more than one chunk, not a multiple of the
\* chunk size, has finished with results
C3_Witness ==
    \E c \in CallIds :
        /\ calls[c].pc = "done"
        /\ calls[c].ran = << "chunked" >>
        /\ Len(searchProducts) > chunkSize
        /\ Len(searchProducts) % chunkSize # 0
        /\ calls[c].yields = 2
        /\ calls[c].output # << >>

\* C4 (as claimed): a call whose worker request failed falls back to the
\* chunked scan and has sent one request only.
C4_FallbackIsChunked ==
    \A c \in CallIds :
        /\ calls[c].requests <= 1
        /\ calls[c].rejected =>
               (calls[c].ran = << "worker", "chunked" >> /\ calls[c].requests = 1)

\* C4 (amended): a call whose worker request failed falls back to the local
\* scan, chunked when its chunking flag is set and synchronous otherwise,
\* and no call sends more than one worker request.
C4_FallbackIsLocalNoRetry ==
    \A c \in CallIds :
        /\ calls[c].requests <= 1
        /\ calls[c].rejected =>
               /\ calls[c].ran = << "worker", localStrategy(calls[c]) >>
               /\ calls[c].requests = 1
               /\ calls[c].pc \in { "yield", "done" }

\* a failed request was followed by the synchronous scan
C4_Witness ==
    \E c \in CallIds :
        /\ calls[c].rejected
        /\ calls[c].ran = << "worker", "sync" >>
        /\ calls[c].pc = "done"

\* C5: a call whose worker request was rejected goes on with the local scan
\* and, when it ends, has set the result list the synchronous strategy
\* gives for its query and the catalog.
C5_RejectedGivesSyncResults ==
    \A c \in CallIds :
        calls[c].rejected =>
            /\ calls[c].pc \in { "yield", "done" }
            /\ calls[c].pc = "done" =>
                   /\ calls[c].output =
                          slice(matchIds(searchTermsOf(calls[c].query)), 0, ResultLimit)
                   /\ results = calls[c].output
                   /\ ~ isSearching

\* a rejected call has finished through the chunked fallback with results
C5_Witness ==
    \E c \in CallIds :
        /\ calls[c].rejected
        /\ calls[c].pc = "done"
        /\ calls[c].flags.microYield
        /\ results # << >>

\* the calls started for input change k
CallsOfInput(k) == { c \in CallIds : calls[c].input = k }

TimerPending(k) == \E t \in timers : t.id = k

\* C6: for every input change handled with debounce on: it starts at most
\* one dispatcher call, from the timer, 300ms after the change and with its
\* value; it starts none when the next change comes less than 300ms later;
\* and it has started exactly one once its delay is over with no such change.
C6_DebounceLastCallWins ==
    \A k \in 1..Len(inputs) :
        inputs[k].debounce =>
            /\ Cardinality(CallsOfInput(k)) <= 1
            /\ \A c \in CallsOfInput(k) :
                   /\ calls[c].via = "timer"
                   /\ calls[c].at = inputs[k].at + DebounceDelay
                   /\ calls[c].query = inputs[k].value
            /\ (k < Len(inputs) /\ inputs[k + 1].at < inputs[k].at + DebounceDelay)
                   => CallsOfInput(k) = { }
            /\ ((k = Len(inputs) \/ inputs[k + 1].at > inputs[k].at + DebounceDelay)
                    /\ mounted
                    /\ (now > inputs[k].at + DebounceDelay \/ ~ TimerPending(k)))
                   => Cardinality(CallsOfInput(k)) = 1

\* changes at t=0 and t=100 with different values: one call, at t=400, with
\* the value of the second change
C6_Witness ==
    /\ Len(inputs) = 2
    /\ inputs[1].debounce /\ inputs[2].debounce
    /\ inputs[1].at = 0 /\ inputs[2].at = 100
    /\ inputs[1].value # inputs[2].value
    /\ Len(calls) = 1
    /\ calls[1].at = 400
    /\ calls[1].query = inputs[2].value

\* C7 (as claimed): a call whose query is empty or only whitespace sets the
\* result list to empty and runs no strategy: no worker request, no chunk,
\* no synchronous scan.
C7_BlankQueryRunsNothing ==
    \A c \in CallIds :
        OnlyWhitespace(calls[c].query) =>
            /\ calls[c].ran = << >>
            /\ calls[c].requests = 0
            /\ calls[c].pc = "done"
            /\ calls[c].output = << >>

\* C8: the displayed result list, and the list every call has set, holds
\* at most 20 entries.
C8_AtMostTwentyResults ==
    /\ Len(results) <= 20
    /\ \A c \in CallIds : Len(calls[c].output) <= 20

\* the worker answered with more than 20 matches and 20 are displayed
C8_Witness ==
    \E c \in CallIds :
        /\ calls[c].ran = << "worker" >>
        /\ calls[c].pc = "done"
        /\ Len(workerSearch(calls[c].query, searchProducts)) > 20
        /\ Len(results) = 20

\* C9: a finished call with more than 20 matches has set exactly the first
\* 20 matches in catalog order, and a chunked scan in progress holds every
\* match of the chunks scanned so far, untruncated.
C9_FirstTwentyAfterFullFilter ==
    \A c \in CallIds :
        calls[c].terms # << >> =>
            /\ (calls[c].pc = "done" /\ Len(matchIds(calls[c].terms)) > 20) =>
                   /\ Len(calls[c].output) = 20
                   /\ calls[c].output = SubSeq(matchIds(calls[c].terms), 1, 20)
            /\ calls[c].pc = "yield" =>
                   calls[c].filteredResults =
                       idsOf(syncFilter(
                           SubSeq(searchProducts, 1,
                                  Min(calls[c].i + chunkSize, Len(searchProducts))),
                           calls[c].terms))

\* a chunked scan has collected more than 20 matches and set 20 results
C9_Witness ==
    \E c \in CallIds :
        /\ calls[c].ran = << "chunked" >>
        /\ calls[c].pc = "done"
        /\ Len(calls[c].filteredResults) > 20
        /\ Len(calls[c].output) = 20

\* the catalog with the case of every text changed
upperCased(products) ==
    [k \in 1..Len(products) |->
        [products[k] EXCEPT !.name = toUpperCase(@),
                            !.description = toUpperCase(@),
                            !.category = toUpperCase(@)]]

lowerCased(products) ==
    [k \in 1..Len(products) |->
        [products[k] EXCEPT !.name = [j \in 1..Len(@) |-> LowerOfChar(@[j])],
                            !.description = [j \in 1..Len(@) |-> LowerOfChar(@[j])],
                            !.category = [j \in 1..Len(@) |-> LowerOfChar(@[j])]]]

matchIdsIn(products, searchQuery) ==
    idsOf(syncFilter(products, searchTermsOf(searchQuery)))

\* C10: the matches a finished local scan has found for its query are the
\* matches of the upper-cased and of the lower-cased query, and the matches
\* in the catalog with every text upper-cased or lower-cased.
C10_CaseInsensitive ==
    \A c \in CallIds :
        LocalDone(calls[c]) =>
            /\ calls[c].filteredResults =
                   matchIdsIn(searchProducts, toUpperCase(calls[c].query))
            /\ calls[c].filteredResults =
                   matchIdsIn(searchProducts,
                              [k \in 1..Len(calls[c].query) |->
                                  LowerOfChar(calls[c].query[k])])
            /\ calls[c].filteredResults =
                   matchIdsIn(upperCased(searchProducts), calls[c].query)
            /\ calls[c].filteredResults =
                   matchIdsIn(lowerCased(searchProducts), calls[c].query)

\* an upper-case query has matched a product through a lower-case letter of
\* its description
C10_Witness ==
    \E c \in CallIds :
        /\ LocalDone(calls[c])
        /\ calls[c].query = << "B" >>
        /\ \E k \in 1..Len(searchProducts) :
               /\ searchProducts[k].name = << "A" >>
               /\ searchProducts[k].description = << "b" >>
               /\ searchProducts[k].id \in Range(calls[c].filteredResults)

\* the terms of a query that occur in none of the texts of a product
missingTerms(product, searchTerms) ==
    { k \in 1..Len(searchTerms) :
        /\ ~ includes([j \in 1..Len(product.name) |-> LowerOfChar(product.name[j])],
                      searchTerms[k])
        /\ ~ includes([j \in 1..Len(product.description) |->
                          LowerOfChar(product.description[j])], searchTerms[k])
        /\ ~ includes([j \in 1..Len(product.category) |->
                          LowerOfChar(product.category[j])], searchTerms[k]) }

\* C11: a product for which some term of the query occurs in none of its
\* name, description and category is in no list a call has collected or set,
\* also when other terms of the query occur in it.
C11_AllTermsRequired ==
    \A c \in CallIds :
        \A k \in 1..Len(searchProducts) :
            missingTerms(searchProducts[k], calls[c].terms) # { } =>
                /\ searchProducts[k].id \notin Range(calls[c].filteredResults)
                /\ searchProducts[k].id \notin Range(calls[c].output)

\* a query of two terms: a product with one of them only is left out, a
\* product with both is found
C11_Witness ==
    \E c \in CallIds :
        /\ LocalDone(calls[c])
        /\ Len(calls[c].terms) = 2
        /\ calls[c].output # << >>
        /\ \E k \in 1..Len(searchProducts) :
               /\ Cardinality(missingTerms(searchProducts[k], calls[c].terms)) = 1
               /\ searchProducts[k].id \notin Range(calls[c].output)

\* C12: the chunks of a chunked scan are consecutive, start at the first
\* product, hold between 1 and 50 products each and end at the last product
\* when the scan is done; the call has yielded once after every chunk
\* scanned (it is suspended in the yield after the latest one).
C12_ChunksCoverOnceWithYields ==
    \A c \in CallIds :
        LET ch == calls[c].chunks
            n == Len(searchProducts)
        IN  /\ \A k \in 1..Len(ch) :
                   /\ ch[k].size >= 1
                   /\ ch[k].size <= 50
                   /\ ch[k].last = ch[k].first + ch[k].size - 1
                   /\ ch[k].first =
                          IF k = 1 THEN searchProducts[1].id ELSE ch[k - 1].last + 1
            /\ calls[c].pc = "yield" => calls[c].yields = Len(ch) - 1
            /\ (calls[c].pc = "done" /\ "chunked" \in Range(calls[c].ran)) =>
                   /\ calls[c].yields = Len(ch)
                   /\ IF n = 0 THEN ch = << >>
                      ELSE ch # << >> /\ ch[Len(ch)].last = searchProducts[n].id

\* a catalog of 51 products was scanned in two chunks, of 50 and of 1, with
\* two yields
C12_Witness ==
    \E c \in CallIds :
        /\ calls[c].pc = "done"
        /\ Len(calls[c].chunks) = 2
        /\ calls[c].chunks[1].size = 50
        /\ calls[c].chunks[2].size = 1
        /\ calls[c].yields = 2

\* C13 (as claimed): a call uses the flag values the configuration holds
\* when it starts; stated here for the calls that start when the page has
\* already read the latest configuration (no change is still unobserved).
C13_FlagsReadAtCallTime ==
    \A c \in CallIds :
        ~ calls[c].staleFlags

\* C14: at most one worker is live; a worker is live exactly while the page
\* is mounted with the worker flag on, and it is the one the reference
\* holds; when the flag is off or the page is unmounted every worker created
\* has been terminated and the reference is cleared.
C14_WorkerReleasedByOwner ==
    /\ Cardinality(liveWorkers) <= 1
    /\ liveWorkers \subseteq 1..workerSeq
    /\ liveWorkers = IF mounted /\ flags.useWorker THEN { workerRef } ELSE { }
    /\ liveWorkers = { } => workerRef = NoWorker

\* the worker flag was turned off on a mounted page: the worker created at
\* mount is terminated and the reference cleared
C14_Witness ==
    /\ mounted
    /\ ~ flags.useWorker
    /\ workerSeq = 1
    /\ liveWorkers = { }
    /\ workerRef = NoWorker

\* C15: an input change handled with debounce off has started exactly one
\* call, from the input handler, at the time of the change and with its
\* value; no timer of an earlier change is pending any more, and no call of
\* an earlier change has started from its timer after it.
C15_ImmediateCallCancelsPending ==
    \A k \in 1..Len(inputs) :
        ~ inputs[k].debounce =>
            /\ Cardinality(CallsOfInput(k)) = 1
            /\ \A c \in CallsOfInput(k) :
                   /\ calls[c].via = "input"
                   /\ calls[c].at = inputs[k].at
                   /\ calls[c].query = inputs[k].value
                   /\ \A d \in CallIds : calls[d].input < k => d < c
            /\ \A t \in timers : t.id > k

\* a debounced change, then debounce is turned off and a second change
\* comes before the delay is over: one call, for the second change
C15_Witness ==
    /\ Len(inputs) = 2
    /\ inputs[1].debounce
    /\ ~ inputs[2].debounce
    /\ inputs[2].at < inputs[1].at + DebounceDelay
    /\ timers = { }
    /\ Len(calls) = 1
    /\ calls[1].input = 2

\* C16: no step changes the catalog.
C16_CatalogNeverMutated == [][searchProducts' = searchProducts]_vars

\* two calls have run a strategy to the end, one of them after a failed
\* worker request
C16_Witness ==
    /\ Len(calls) = 2
    /\ \A c \in CallIds : calls[c].pc = "done" /\ calls[c].ran # << >>
    /\ \E c \in CallIds : calls[c].rejected
    /\ searchProducts \in PageCatalogs

\* C17: a call that reaches its end sets the displayed results to its own
\* list, whatever calls have started after it.
C17_FinishingCallOverwritesResults ==
    [][\A c \in CallIds :
          (mounted /\ calls[c].pc # "done" /\ calls'[c].pc = "done")
              => results' = calls'[c].output]_vars

\* debounce off: the second call started while the first was suspended and
\* has ended before it; the first has then set the results of its own
\* query, which is not the text of the input field
C17_Witness ==
    /\ Len(calls) = 2
    /\ ~ inputs[1].debounce /\ ~ inputs[2].debounce
    /\ calls[1].pc = "done" /\ calls[2].pc = "done"
    /\ calls[1].yields + calls[1].requests > 0
    /\ query = calls[2].query
    /\ calls[1].query # query
    /\ results = calls[1].output
    /\ results # calls[2].output

\* the statuses of the latest getBudgetStatus
statusesReturned ==
    IF returned.op = "getBudgetStatus" THEN returned.value ELSE << >>

\* C18: getBudgetStatus reports exactly the measured metrics, each against
\* the threshold of the current level, as pass when the value is at most
\* 80% of the threshold, as warning when it is above 80% and at most 100%,
\* and as fail when it is above 100%.
C18_StatusByShareOfBudget ==
    /\ { statusesReturned[k].metric : k \in 1..Len(statusesReturned) } =
          IF returned.op = "getBudgetStatus"
          THEN { key \in Range(budgetEntries) : metrics[key] # Undefined }
          ELSE { }
    /\ \A k \in 1..Len(statusesReturned) :
          LET s == statusesReturned[k]
          IN  /\ s.actual = metrics[s.metric]
              /\ s.budget = PERFORMANCE_BUDGETS[currentBudgetLevel][s.metric]
              /\ s.status = "pass" <=> 100 * s.actual <= 80 * s.budget
              /\ s.status = "warning" <=>
                     (100 * s.actual > 80 * s.budget /\ s.actual <= s.budget)
              /\ s.status = "fail" <=> s.actual > s.budget

\* a report with a value at exactly 80% of its threshold (pass), one at
\* exactly 100% (warning) and one above (fail)
C18_Witness ==
    /\ \E k \in 1..Len(statusesReturned) :
          /\ 100 * statusesReturned[k].actual = 80 * statusesReturned[k].budget
          /\ statusesReturned[k].status = "pass"
    /\ \E k \in 1..Len(statusesReturned) :
          /\ statusesReturned[k].actual = statusesReturned[k].budget
          /\ statusesReturned[k].status = "warning"
    /\ \E k \in 1..Len(statusesReturned) :
          statusesReturned[k].status = "fail"

\* C19: the summary counts add up to the total, which is the number of
\* measured metrics; the score is 100 when nothing is measured and
\* otherwise the integer nearest to 100 * (passed + warnings / 2) / total
\* (halves up), and it lies between 0 and 100.
C19_SummaryCountsAndScore ==
    returned.op = "getBudgetSummary" =>
        LET r == returned.value
        IN  /\ r.total = r.passed + r.warnings + r.failed
            /\ r.total = Len(r.statuses)
            /\ r.passed = Cardinality({ k \in 1..Len(r.statuses) :
                                          r.statuses[k].status = "pass" })
            /\ r.warnings = Cardinality({ k \in 1..Len(r.statuses) :
                                            r.statuses[k].status = "warning" })
            /\ r.score \in 0..100
            /\ r.total = 0 => r.score = 100
            /\ r.total > 0 =>
                   /\ 2 * r.total * r.score
                          <= 100 * (2 * r.passed + r.warnings) + r.total
                   /\ 100 * (2 * r.passed + r.warnings) + r.total
                          < 2 * r.total * (r.score + 1)

\* a summary of passes, warnings and fails whose score is rounded up
C19_Witness ==
    /\ returned.op = "getBudgetSummary"
    /\ returned.value.passed > 0
    /\ returned.value.warnings > 0
    /\ returned.value.failed > 0
    /\ returned.value.total * returned.value.score
          > 50 * (2 * returned.value.passed + returned.value.warnings)

\* C20 (as claimed): after setBudgetLevel(L), getBudgetLevel returns L and
\* getCurrentBudget returns the table of L, whatever the storage holds and
\* whether or not it can be written.
C20_LevelSetIsLevelRead ==
    lastSet # "none" =>
        /\ returned.op = "getBudgetLevel" => returned.value = lastSet
        /\ returned.op = "getCurrentBudget" =>
               returned.value = PERFORMANCE_BUDGETS[lastSet]

\* C21: a call keeps the flags it started with, and the scan it starts
\* after a failed worker request is the one those flags select, whatever
\* the flags of the page have become while it was suspended.
C21_FlagsSnapshotPerCall ==
    [][\A c \in CallIds :
          /\ calls'[c].flags = calls[c].flags
          /\ Len(calls'[c].ran) > Len(calls[c].ran) =>
                 Last(calls'[c].ran) =
                     IF calls[c].flags.microYield THEN "chunked" ELSE "sync"]_vars

\* a call started from the input handler with chunking on runs its chunked
\* fallback after a failed worker request while the page has chunking off
C21_Witness ==
    \E c \in CallIds :
        /\ calls[c].via = "input"
        /\ calls[c].rejected
        /\ calls[c].pc = "yield"
        /\ calls[c].flags.microYield
        /\ ~ flags.microYield

C24_SearchingWhileInFlight ==
    mounted => (isSearching <=> \E c \in CallIds : calls[c].pc # "done")

\* every input change so far was handled, and every call so far has run,
\* with the worker, chunking and debounce flags off
allFlagsOff ==
    /\ \A k \in 1..Len(inputs) : ~ inputs[k].debounce
    /\ \A c \in CallIds :
           /\ ~ calls[c].flags.useWorker
           /\ ~ calls[c].flags.microYield
           /\ ~ calls[c].flags.debounce

\* C25: when every input change so far was handled with the three flags off,
\* every call has ended inside the input handler and the displayed results are those
\* of the text of the input field, the value of the latest change (none for
\* a text without terms).
C25_SyncResultsFollowInput ==
    (mounted /\ calls # << >> /\ allFlagsOff) =>
        /\ \A c \in CallIds : calls[c].pc = "done" /\ calls[c].via = "input"
        /\ Last(calls).query = query
        /\ Last(inputs).value = query
        /\ results = Last(calls).output
        /\ results =
               IF searchTermsOf(query) = << >> THEN << >>
               ELSE firstTwenty(idsOf(syncFilter(searchProducts,
                                                 searchTermsOf(query))))

\* two changes with different results, all flags off: the results of the
\* second are displayed
C25_Witness ==
    /\ mounted
    /\ Len(calls) = 2
    /\ allFlagsOff
    /\ calls[1].output # calls[2].output
    /\ results = calls[2].output

\* C29: at most one debounce timer is pending at any time; once the page is
\* unmounted none is pending, and no call starts any more.
C29_NoTimerAfterUnmount ==
    [][/\ Cardinality(timers') <= 1
       /\ ~ mounted' => timers' = { }
       /\ ~ mounted => Len(calls') = Len(calls)]_vars

\* the page was unmounted with the timer of the latest change pending: the
\* timer is gone and the change has started no call
C29_Witness ==
    /\ ~ mounted
    /\ inputs # << >>
    /\ Last(inputs).debounce
    /\ CallsOfInput(Len(inputs)) = { }
    /\ timers = { }
    /\ debounceTimer = Len(inputs)

\* C30 (as claimed): whatever the storage holds, the current level is one
\* of the three levels, getBudgetLevel returns one of them and
\* getCurrentBudget returns one of the three tables.
C30_LevelIsOneOfThree ==
    /\ currentBudgetLevel \in BudgetLevel
    /\ returned.op = "getBudgetLevel" => returned.value \in BudgetLevel
    /\ returned.op = "getCurrentBudget" =>
           returned.value \in { PERFORMANCE_BUDGETS[level] : level \in BudgetLevel }

\* ------------------------------------------------------------------------
\* Properties of the cart
\* ------------------------------------------------------------------------
\* the item count of the cart modal: the sum of the quantities
RECURSIVE totalCartItems(_)
totalCartItems(cart) ==
    IF cart = << >> THEN 0
    ELSE cart[1].quantity + totalCartItems(Tail(cart))

\* the quantity of a product in a cart, 0 when it has no line
RECURSIVE quantityIn(_, _)
quantityIn(cart, id) ==
    IF cart = << >> THEN 0
    ELSE (IF cart[1].product.id = id THEN cart[1].quantity ELSE 0)
         + quantityIn(Tail(cart), id)

AddStep == Len(addLog') = Len(addLog) + 1

\* C23: whenever no setCart call is in progress the cart state of every
\* mounted consumer, one that rendered before its listener was registered
\* included, equals the global cart, and a consumer that has unmounted
\* receives no further notification.
C23_ConsumersFollowGlobalCart ==
    /\ [](\A k \in Consumers : Mounted(k) => consumers[k].cart = globalCart)
    /\ [][\A k \in Consumers :
            consumers[k].phase = "unmounted" => consumers'[k] = consumers[k]]_vars

\* C26: starting from an empty cart, after any sequence of add-to-cart
\* operations from either page no two lines share a product id, every
\* quantity is at least 1, and the sum of the quantities is the number of
\* add-to-cart operations.
C26_AddToCartCounts ==
    loadedCart = << >> =>
        /\ \A i, j \in 1..Len(globalCart) :
              globalCart[i].product.id = globalCart[j].product.id => i = j
        /\ \A i \in 1..Len(globalCart) : globalCart[i].quantity >= 1
        /\ totalCartItems(globalCart) = Len(addLog)

C26_Witness ==
    /\ loadedCart = << >>
    /\ Len(addLog) = MaxAdds
    /\ Len(globalCart) = 2
    /\ \E i \in 1..Len(globalCart) : globalCart[i].quantity >= 2
    /\ \E i, j \in 1..Len(addLog) : addLog[i].by # addLog[j].by

\* C27: the updater of setCart is applied to the latest global cart, not to
\* the cart of the calling component: an add-to-cart adds one to the
\* quantity of its product in the global cart and leaves the quantity of
\* every other product, also when the component has not re-rendered since
\* another component's update.
C27_NoUpdateLost ==
    [][AddStep =>
        LET added == addLog'[Len(addLog')].product
        IN  \A product \in CartProducts :
              quantityIn(globalCart', product.id) =
                quantityIn(globalCart, product.id)
                + (IF product = added THEN 1 ELSE 0)]_vars

C27_Witness ==
    \E i \in 2..Len(addLog) :
        /\ addLog[i].stale
        /\ addLog[i].by # addLog[i - 1].by
        /\ totalCartItems(globalCart) = totalCartItems(loadedCart) + Len(addLog)

\* C28: a failed write to local storage still replaces the global cart and
\* notifies every listener, and the call returns; after a successful write
\* the stored text parses back to the cart that was set; a stored text that
\* does not parse at start-up gives an empty cart.
C28_StorageFailureTolerated ==
    /\ [](addLog = << >> /\ cartStorage # << >> /\ ~JSONparse(cartStorage).ok
            => globalCart = << >>)
    /\ [][AddStep =>
            /\ globalCart' =
                 addToCart(globalCart, addLog'[Len(addLog')].product)
            /\ \A k \in listeners : consumers'[k].cart = globalCart'
            /\ IF cartStorageMode = "ok"
               THEN /\ JSONparse(cartStorage').ok
                    /\ JSONparse(cartStorage').value = globalCart'
               ELSE cartStorage' = cartStorage]_vars

C28_Witness ==
    /\ addLog # << >>
    /\ cartStorageMode = "readonly"
    /\ cartStorage # << >>
    /\ ~JSONparse(cartStorage).ok
    /\ globalCart # << >>
    /\ listeners # { }
    /\ \A k \in listeners : consumers[k].cart = globalCart

====
